---- MODULE Spec2Model ----
(***************************************************************************)
(* Model of the order_total microservice (src/order_total/src/main.rs).    *)
(*                                                                         *)
(* The server handles NumReqs inbound requests.  Each inbound request runs *)
(* handle_request; POST /compute runs compute, which suspends at the       *)
(* inbound body read (to_bytes), at the outbound send() and at the reply's *)
(* text().  Between two suspension points a request runs atomically (the   *)
(* runtime is current_thread), and requests interleave at these points.    *)
(*                                                                         *)
(* JSON texts are modelled by the values they denote (an object is a       *)
(* function from keys to tagged values, Malformed is a text that is not    *)
(* JSON); f32 numbers are modelled as exact decimal fractions [n, d], so   *)
(* rounding and non-finite values are outside the model.                   *)
(***************************************************************************)
EXTENDS Integers, Sequences, FiniteSets

\* number of inbound requests the server receives
NumReqs == 2

Reqs == 1..NumReqs

-----------------------------------------------------------------------------
(* HTTP status codes *)

OK == 200
BAD_REQUEST == 400
NOT_FOUND == 404
INTERNAL_SERVER_ERROR == 500
SERVICE_UNAVAILABLE == 503

-----------------------------------------------------------------------------
(* Numbers and JSON values *)

Rat(n, d) == [n |-> n, d |-> d]

RatMul(a, b) == Rat(a.n * b.n, a.d * b.d)

RatAdd(a, b) == Rat(a.n * b.d + b.n * a.d, a.d * b.d)

One == Rat(1, 1)

JInt(k) == [t |-> "int", n |-> k, d |-> 1, s |-> ""]
JFloat(r) == [t |-> "float", n |-> r.n, d |-> r.d, s |-> ""]
JStr(str) == [t |-> "str", n |-> 0, d |-> 1, s |-> str]
JAbsent == [t |-> "absent", n |-> 0, d |-> 1, s |-> ""]

OrderKeys == {"order_id", "product_id", "quantity", "subtotal",
              "shipping_address", "shipping_zip", "total"}

ErrorKeys == {"status", "message"}

Keys == OrderKeys \cup ErrorKeys

EmptyObj == [k \in Keys |-> JAbsent]

\* a JSON text: wf = FALSE is a text that is not JSON at all
JsonText(o) == [wf |-> TRUE, obj |-> o]

Malformed == [wf |-> FALSE, obj |-> EmptyObj]

-----------------------------------------------------------------------------
(* struct Order and its serde implementations *)

Order(oid, pid, q, sub, addr, zip, tot) ==
    [order_id |-> oid, product_id |-> pid, quantity |-> q, subtotal |-> sub,
     shipping_address |-> addr, shipping_zip |-> zip, total |-> tot]

NoOrder == Order(0, 0, 0, Rat(0, 1), "", "", Rat(0, 1))

IsI32(v) == v.t = "int" /\ v.n >= -2147483647 - 1 /\ v.n <= 2147483647

IsF32(v) == v.t \in {"int", "float"}

IsString(v) == v.t = "str"

\* Deserialize with `total` default-filled when it is absent or ill-typed
Deserialize_default_total(b) ==
    IF /\ b.wf
       /\ IsI32(b.obj["order_id"])
       /\ IsI32(b.obj["product_id"])
       /\ IsI32(b.obj["quantity"])
       /\ IsF32(b.obj["subtotal"])
       /\ IsString(b.obj["shipping_address"])
       /\ IsString(b.obj["shipping_zip"])
    THEN [ok |-> TRUE,
          val |-> Order(b.obj["order_id"].n, b.obj["product_id"].n,
                        b.obj["quantity"].n,
                        Rat(b.obj["subtotal"].n, b.obj["subtotal"].d),
                        b.obj["shipping_address"].s, b.obj["shipping_zip"].s,
                        Rat(0, 1))]
    ELSE [ok |-> FALSE, val |-> NoOrder]

\* serde_json::from_slice::<Order>: every field of the struct is required and
\* typed; keys that are not fields of the struct are ignored
Deserialize(b) ==
    IF /\ b.wf
       /\ IsI32(b.obj["order_id"])
       /\ IsI32(b.obj["product_id"])
       /\ IsI32(b.obj["quantity"])
       /\ IsF32(b.obj["subtotal"])
       /\ IsString(b.obj["shipping_address"])
       /\ IsString(b.obj["shipping_zip"])
       /\ IsF32(b.obj["total"])
    THEN [ok |-> TRUE,
          val |-> Order(b.obj["order_id"].n, b.obj["product_id"].n,
                        b.obj["quantity"].n,
                        Rat(b.obj["subtotal"].n, b.obj["subtotal"].d),
                        b.obj["shipping_address"].s, b.obj["shipping_zip"].s,
                        Rat(b.obj["total"].n, b.obj["total"].d))]
    ELSE [ok |-> FALSE, val |-> NoOrder]

\* serde_json::to_string_pretty(&order): cannot fail for this struct
SerializeOrder(o) ==
    [ok |-> TRUE,
     val |-> [k \in Keys |->
                CASE k = "order_id" -> JInt(o.order_id)
                  [] k = "product_id" -> JInt(o.product_id)
                  [] k = "quantity" -> JInt(o.quantity)
                  [] k = "subtotal" -> JFloat(o.subtotal)
                  [] k = "shipping_address" -> JStr(o.shipping_address)
                  [] k = "shipping_zip" -> JStr(o.shipping_zip)
                  [] k = "total" -> JFloat(o.total)
                  [] OTHER -> JAbsent]]

-----------------------------------------------------------------------------
(* str::parse::<f32> on decimal texts (a sequence of characters) *)

Digits == {"0", "1", "2", "3", "4", "5", "6", "7", "8", "9"}

DigitVal(c) ==
    CASE c = "0" -> 0 [] c = "1" -> 1 [] c = "2" -> 2 [] c = "3" -> 3
      [] c = "4" -> 4 [] c = "5" -> 5 [] c = "6" -> 6 [] c = "7" -> 7
      [] c = "8" -> 8 [] c = "9" -> 9 [] OTHER -> 0

RECURSIVE Pow10(_)
Pow10(k) == IF k = 0 THEN 1 ELSE 10 * Pow10(k - 1)

\* value of the digits of s, skipping the decimal point
RECURSIVE DigitsValue(_)
DigitsValue(s) ==
    IF s = <<>> THEN 0
    ELSE LET last == s[Len(s)]
             init == SubSeq(s, 1, Len(s) - 1)
         IN  IF last = "." THEN DigitsValue(init)
             ELSE 10 * DigitsValue(init) + DigitVal(last)

ParseFloatError == [ok |-> FALSE, val |-> Rat(0, 1)]

ParseF32(text) ==
    LET signed == Len(text) > 0 /\ text[1] \in {"+", "-"}
        mag == IF signed THEN SubSeq(text, 2, Len(text)) ELSE text
        dots == {k \in 1..Len(mag) : mag[k] = "."}
        digs == {k \in 1..Len(mag) : mag[k] \in Digits}
        frac == {k \in digs : \E p \in dots : p < k}
    IN  IF /\ \A k \in 1..Len(mag) : mag[k] \in Digits \cup {"."}
           /\ Cardinality(dots) <= 1
           /\ digs # {}
        THEN [ok |-> TRUE,
              val |-> Rat((IF signed /\ text[1] = "-" THEN -1 ELSE 1)
                            * DigitsValue(mag),
                          Pow10(Cardinality(frac)))]
        ELSE ParseFloatError

-----------------------------------------------------------------------------
(* Responses *)

CorsHeaders ==
    {<<"Access-Control-Allow-Origin", "*">>,
     <<"Access-Control-Allow-Methods", "GET, POST, OPTIONS">>,
     <<"Access-Control-Allow-Headers", "api,Keep-Alive,User-Agent,Content-Type">>}

TextBody(str) == [json |-> FALSE, text |-> str, obj |-> EmptyObj]

JsonBody(o) == [json |-> TRUE, text |-> "", obj |-> o]

\* the usage text, without its quoting characters
Usage == "Try POSTing data to /compute such as: curl localhost:8002/compute -XPOST -d ..."

response_build(status, b) == [status |-> status, headers |-> CorsHeaders, body |-> b]

\* Response::new(Body::from(..)): status 200 and no header set by the handler
Response_new(b) == [status |-> OK, headers |-> {}, body |-> b]

\* Response::default() with its status set to 404
NotFoundResponse == [status |-> NOT_FOUND, headers |-> {}, body |-> TextBody("")]

-----------------------------------------------------------------------------
(* enum ComputeError and its conversions *)

InvalidRequest == [kind |-> "InvalidRequest", cause |-> ""]

TaxRateNotAvailable == [kind |-> "TaxRateNotAvailable", cause |-> ""]

Unexpected(cause) == [kind |-> "Unexpected", cause |-> cause]

\* a body read failure reported as a failed rate lookup
From_hyper_Error_unavailable(e) == TaxRateNotAvailable

From_hyper_Error(e) == Unexpected(e)

From_serde_json_Error == InvalidRequest

From_reqwest_Error == TaxRateNotAvailable

\* an unparsable rate reported as a bad request
From_ParseFloatError_invalid == InvalidRequest

From_ParseFloatError == TaxRateNotAvailable

ErrorResponse_new(message) ==
    [k \in Keys |-> CASE k = "status" -> JStr("error")
                      [] k = "message" -> JStr(message)
                      [] OTHER -> JAbsent]

TaxRateMessage == "The zip code in the order does not have a corresponding sales tax rate."

From_ComputeError(value) ==
    LET code == CASE value.kind = "InvalidRequest" -> BAD_REQUEST
                  [] value.kind = "TaxRateNotAvailable" -> SERVICE_UNAVAILABLE
                  [] OTHER -> INTERNAL_SERVER_ERROR
        b == CASE value.kind = "InvalidRequest" -> ErrorResponse_new("invalid request")
               [] value.kind = "TaxRateNotAvailable" -> ErrorResponse_new(TaxRateMessage)
               [] OTHER -> ErrorResponse_new(value.cause)
    IN  response_build(code, JsonBody(b))

-----------------------------------------------------------------------------
(* Inputs *)

Methods == {"GET", "POST", "OPTIONS"}

Paths == {"/", "/compute", "/foo"}

DefaultRateService == "http://localhost:8001/find_rate"

\* the environment variable SALES_TAX_RATE_SERVICE: unset, or set to a URL
Environments == {[set |-> FALSE, val |-> ""],
                 [set |-> TRUE, val |-> "http://rates.internal/find_rate"]}

OrderJson(sub, zip, tot) ==
    [k \in Keys |->
        CASE k = "order_id" -> JInt(1)
          [] k = "product_id" -> JInt(12)
          [] k = "quantity" -> JInt(2)
          [] k = "subtotal" -> sub
          [] k = "shipping_address" -> JStr("5 Main St")
          [] k = "shipping_zip" -> zip
          [] k = "total" -> tot
          [] OTHER -> JAbsent]

\* inbound bodies: orders that differ in subtotal, zip and total, orders with
\* a missing or ill-typed field, and a text that is not JSON
RequestBodies ==
    {JsonText(OrderJson(JInt(100), JStr("78701"), JInt(0))),
     JsonText(OrderJson(JInt(100), JStr("78701"), JFloat(Rat(999, 10)))),
     JsonText(OrderJson(JFloat(Rat(125, 10)), JStr("10001"), JInt(0))),
     JsonText(OrderJson(JAbsent, JStr("78701"), JInt(0))),
     JsonText(OrderJson(JInt(100), JStr("78701"), JAbsent)),
     JsonText(OrderJson(JInt(100), JStr("78701"), JStr("n/a"))),
     JsonText(OrderJson(JInt(100), JInt(78701), JInt(0))),
     Malformed}

\* failures of reading the inbound body (hyper::Error), by their Display text
HyperErrors == {"error reading a body from connection"}

\* status codes of the rate service's reply
ReplyStatuses == {200, 500}

\* bodies of the rate service's reply
ReplyTexts == {<<"0", ".", "0", "7">>, <<"2">>, <<"a", "b", "c">>, <<>>}

-----------------------------------------------------------------------------
(* State *)

VARIABLES
    env,                      \* the process environment variable
    SALES_TAX_RATE_SERVICE,   \* the lazy static: [init, val]
    pc,                       \* where each request's handler is
    req,                      \* method and path of each inbound request
    body,                     \* result of reading each inbound body
    order,                    \* compute's local `order` of each request
    outbound,                 \* requests sent to the rate service, per request
    reply,                    \* what came back from the rate service, per request
    responses,                \* responses handed to the client, per request
    ret                       \* what handle_request returned to the server

vars == <<env, SALES_TAX_RATE_SERVICE, pc, req, body, order, outbound, reply,
          responses, ret>>

NoRequest == [method |-> "", path |-> ""]

NoBody == [read |-> "none", bytes |-> Malformed, err |-> ""]

NoReply == [stage |-> "none", status |-> 0, text |-> <<>>]

Init ==
    /\ env \in Environments
    /\ SALES_TAX_RATE_SERVICE = [init |-> FALSE, val |-> ""]
    /\ pc = [i \in Reqs |-> "idle"]
    /\ req = [i \in Reqs |-> NoRequest]
    /\ body = [i \in Reqs |-> NoBody]
    /\ order = [i \in Reqs |-> NoOrder]
    /\ outbound = [i \in Reqs |-> <<>>]
    /\ reply = [i \in Reqs |-> NoReply]
    /\ responses = [i \in Reqs |-> <<>>]
    /\ ret = [i \in Reqs |-> "none"]

-----------------------------------------------------------------------------
(* handle_request and compute *)

\* routing on the path alone
Route_by_path(method, path) ==
    CASE path = "/compute" /\ method = "OPTIONS" -> "preflight"
      [] path = "/" -> "usage"
      [] path = "/compute" -> "compute"
      [] OTHER -> "not_found"

\* the arm of handle_request's match that (method, path) selects
Route(method, path) ==
    CASE method = "OPTIONS" /\ path = "/compute" -> "preflight"
      [] method = "GET" /\ path = "/" -> "usage"
      [] method = "POST" /\ path = "/compute" -> "compute"
      [] OTHER -> "not_found"

\* first dereference of the lazy static initialises it from the environment
LazyRateService(cur, e) ==
    IF cur.init THEN cur
    ELSE [init |-> TRUE, val |-> IF e.set THEN e.val ELSE DefaultRateService]

\* a client that sends the request a second time
OutboundRequests_retry(url, o) ==
    <<[url |-> url, body |-> o.shipping_zip], [url |-> url, body |-> o.shipping_zip]>>

\* what client.post(url).body(zip).send() puts on the wire
OutboundRequests(url, o) == <<[url |-> url, body |-> o.shipping_zip]>>

\* a client that turns an error status into an error (error_for_status)
ReplyAccepted_by_status(status) == status < 400

\* send().await? hands over the reply whatever its status code is
ReplyAccepted(status) == TRUE

\* the tax alone, without the subtotal
order_total_tax_only(o, rate) == RatMul(o.subtotal, rate)

\* the new total added to the one that came in
order_total_accumulated(o, rate) ==
    RatAdd(o.total, RatMul(o.subtotal, RatAdd(One, rate)))

\* order.subtotal * (1.0 + rate)
order_total(o, rate) == RatMul(o.subtotal, RatAdd(One, rate))

\* one order shared by every request
StaticOrder(i) == order[CHOOSE j \in Reqs : \A k \in Reqs : j <= k]

\* compute's local variable `order` of request i
LocalOrder(i) == order[i]

\* handle_request returns Ok(resp) to the server, which sends resp
Return(i, resp) ==
    /\ responses' = [responses EXCEPT ![i] = Append(@, resp)]
    /\ ret' = [ret EXCEPT ![i] = "Ok"]
    /\ pc' = [pc EXCEPT ![i] = "done"]

\* Err(err) => Ok(err.into())
ReturnError(i, err) == Return(i, From_ComputeError(err))

HandleRequest(i) ==
    /\ pc[i] = "idle"
    /\ \E method \in Methods, path \in Paths :
        /\ req' = [req EXCEPT ![i] = [method |-> method, path |-> path]]
        /\ CASE Route(method, path) = "preflight" ->
                    Return(i, response_build(OK, TextBody("")))
             [] Route(method, path) = "usage" ->
                    Return(i, Response_new(TextBody(Usage)))
             [] Route(method, path) = "compute" ->
                    /\ pc' = [pc EXCEPT ![i] = "reading_body"]
                    /\ UNCHANGED <<responses, ret>>
             [] OTHER ->
                    Return(i, NotFoundResponse)
    /\ UNCHANGED <<env, SALES_TAX_RATE_SERVICE, body, order, outbound, reply>>

\* hyper::body::to_bytes(req).await fails
BodyReadFails(i) ==
    /\ pc[i] = "reading_body"
    /\ \E e \in HyperErrors :
        /\ body' = [body EXCEPT ![i] = [read |-> "err", bytes |-> Malformed, err |-> e]]
        /\ ReturnError(i, From_hyper_Error(e))
    /\ UNCHANGED <<env, SALES_TAX_RATE_SERVICE, req, order, outbound, reply>>

\* to_bytes completes; compute runs up to send().await
BodyRead(i) ==
    /\ pc[i] = "reading_body"
    /\ \E b \in RequestBodies :
        /\ body' = [body EXCEPT ![i] = [read |-> "ok", bytes |-> b, err |-> ""]]
        /\ IF ~Deserialize(b).ok
           THEN /\ ReturnError(i, From_serde_json_Error)
                /\ UNCHANGED <<SALES_TAX_RATE_SERVICE, order, outbound>>
           ELSE /\ order' = [order EXCEPT ![i] = Deserialize(b).val]
                /\ SALES_TAX_RATE_SERVICE' = LazyRateService(SALES_TAX_RATE_SERVICE, env)
                /\ outbound' = [outbound EXCEPT ![i] =
                                   @ \o OutboundRequests(SALES_TAX_RATE_SERVICE'.val,
                                                         Deserialize(b).val)]
                /\ pc' = [pc EXCEPT ![i] = "sending"]
                /\ UNCHANGED <<responses, ret>>
    /\ UNCHANGED <<env, req, reply>>

\* send().await fails (connect error, broken connection, ...)
SendFails(i) ==
    /\ pc[i] = "sending"
    /\ reply' = [reply EXCEPT ![i] = [stage |-> "send_err", status |-> 0, text |-> <<>>]]
    /\ ReturnError(i, From_reqwest_Error)
    /\ UNCHANGED <<env, SALES_TAX_RATE_SERVICE, req, body, order, outbound>>

\* send().await returns the reply's head
SendCompletes(i) ==
    /\ pc[i] = "sending"
    /\ \E status \in ReplyStatuses :
        /\ reply' = [reply EXCEPT ![i] = [stage |-> "head", status |-> status, text |-> <<>>]]
        /\ IF ReplyAccepted(status)
           THEN /\ pc' = [pc EXCEPT ![i] = "reading_text"]
                /\ UNCHANGED <<responses, ret>>
           ELSE ReturnError(i, From_reqwest_Error)
    /\ UNCHANGED <<env, SALES_TAX_RATE_SERVICE, req, body, order, outbound>>

\* text().await fails
TextFails(i) ==
    /\ pc[i] = "reading_text"
    /\ reply' = [reply EXCEPT ![i] = [@ EXCEPT !.stage = "text_err"]]
    /\ ReturnError(i, From_reqwest_Error)
    /\ UNCHANGED <<env, SALES_TAX_RATE_SERVICE, req, body, order, outbound>>

\* text().await returns the reply's body; compute runs to its end
TextRead(i) ==
    /\ pc[i] = "reading_text"
    /\ \E text \in ReplyTexts :
        /\ reply' = [reply EXCEPT ![i] = [@ EXCEPT !.stage = "text", !.text = text]]
        /\ IF ~ParseF32(text).ok
           THEN /\ ReturnError(i, From_ParseFloatError)
                /\ UNCHANGED order
           ELSE LET updated == [LocalOrder(i) EXCEPT
                                   !.total = order_total(LocalOrder(i), ParseF32(text).val)]
                    out == SerializeOrder(updated)
                IN  /\ order' = [order EXCEPT ![i] = updated]
                    /\ IF out.ok
                       THEN Return(i, response_build(OK, JsonBody(out.val)))
                       ELSE ReturnError(i, Unexpected("serialization error"))
    /\ UNCHANGED <<env, SALES_TAX_RATE_SERVICE, req, body, outbound>>

Next ==
    \E i \in Reqs :
        \/ HandleRequest(i)
        \/ BodyReadFails(i)
        \/ BodyRead(i)
        \/ SendFails(i)
        \/ SendCompletes(i)
        \/ TextFails(i)
        \/ TextRead(i)

Spec == Init /\ [][Next]_vars

-----------------------------------------------------------------------------
(* Vocabulary of the properties *)

Done(i) == pc[i] = "done"

IsPostCompute(i) == req[i].method = "POST" /\ req[i].path = "/compute"

\* the response the client of request i received
Resp(i) == responses[i][1]

\* the inbound body is a JSON object with every field of Order, well typed
IsOrderJson(b) ==
    /\ b.wf
    /\ \A k \in {"order_id", "product_id", "quantity"} : b.obj[k].t = "int"
    /\ \A k \in {"subtotal", "total"} : b.obj[k].t \in {"int", "float"}
    /\ \A k \in {"shipping_address", "shipping_zip"} : b.obj[k].t = "str"

ValidOrderRead(i) == body[i].read = "ok" /\ IsOrderJson(body[i].bytes)

IsErrorEnvelope(r, message) ==
    /\ r.body.json
    /\ r.body.obj["status"] = JStr("error")
    /\ r.body.obj["message"] = JStr(message)
    /\ \A k \in OrderKeys : r.body.obj[k] = JAbsent

\* the response's total is S * (1 + R), as fractions
TotalIs(r, S, R) ==
    /\ r.body.json
    /\ r.body.obj["total"].t = "float"
    /\ r.body.obj["total"].n * (S.d * R.d) = S.n * (R.d + R.n) * r.body.obj["total"].d

SubtotalOf(b) == Rat(b.obj["subtotal"].n, b.obj["subtotal"].d)

RateParsed(i) == reply[i].stage = "text" /\ ParseF32(reply[i].text).ok

-----------------------------------------------------------------------------
(* C1: every response the service produces, on every route and for every   *)
(* outcome, carries the three CORS headers.                                *)
C1_EveryResponseCarriesCors ==
    \A i \in Reqs : \A k \in 1..Len(responses[i]) :
        CorsHeaders \subseteq responses[i][k].headers

(* C2: a POST /compute whose body deserializes as an Order with subtotal S *)
(* and whose rate lookup, sent with that order's shipping_zip, returns a   *)
(* text that parses as R, is answered 200 with total = S * (1 + R).        *)
C2_TotalIsSubtotalTimesOnePlusRate ==
    \A i \in Reqs :
        (Done(i) /\ IsPostCompute(i) /\ ValidOrderRead(i) /\ RateParsed(i)) =>
            /\ Resp(i).status = OK
            /\ outbound[i][1].body = body[i].bytes.obj["shipping_zip"].s
            /\ TotalIs(Resp(i), SubtotalOf(body[i].bytes), ParseF32(reply[i].text).val)

C2_Witness ==
    \E i \in Reqs :
        /\ Done(i) /\ IsPostCompute(i) /\ ValidOrderRead(i)
        /\ SubtotalOf(body[i].bytes) = Rat(125, 10)
        /\ reply[i].stage = "text" /\ reply[i].text = <<"0", ".", "0", "7">>
        /\ Resp(i).status = OK
        /\ Resp(i).body.obj["total"].n * 1000 = 13375 * Resp(i).body.obj["total"].d

(* C3: two POST /compute requests whose bodies differ only in the `total`  *)
(* field and whose rate lookups return the same reply get identical        *)
(* responses (status and body).                                            *)
C3_InputTotalNeverInfluences ==
    \A i, j \in Reqs :
        ( /\ Done(i) /\ Done(j) /\ IsPostCompute(i) /\ IsPostCompute(j)
          /\ body[i].read = "ok" /\ body[j].read = "ok"
          /\ body[i].bytes.wf /\ body[j].bytes.wf
          /\ \A k \in Keys \ {"total"} : body[i].bytes.obj[k] = body[j].bytes.obj[k]
          /\ reply[i] = reply[j] )
        => Resp(i) = Resp(j)

C3_Witness ==
    \E i, j \in Reqs :
        /\ Done(i) /\ Done(j) /\ IsPostCompute(i) /\ IsPostCompute(j)
        /\ ValidOrderRead(i) /\ ValidOrderRead(j)
        /\ body[i].bytes.obj["total"] = JInt(0)
        /\ body[j].bytes.obj["total"] = JFloat(Rat(999, 10))
        /\ \A k \in Keys \ {"total"} : body[i].bytes.obj[k] = body[j].bytes.obj[k]
        /\ RateParsed(i) /\ reply[i] = reply[j]
        /\ Resp(i).status = OK /\ Resp(i) = Resp(j)

(* C4: a POST /compute whose body does not deserialize as an Order (not    *)
(* JSON, a missing required field, a field of the wrong type) is answered  *)
(* 400 with the envelope status "error", message "invalid request".        *)
C4_MalformedBodyIs400 ==
    \A i \in Reqs :
        (Done(i) /\ IsPostCompute(i) /\ body[i].read = "ok" /\ ~IsOrderJson(body[i].bytes)) =>
            /\ Resp(i).status = BAD_REQUEST
            /\ IsErrorEnvelope(Resp(i), "invalid request")

C4_Witness ==
    \E i \in Reqs :
        /\ Done(i) /\ IsPostCompute(i) /\ body[i].read = "ok"
        /\ body[i].bytes.wf /\ body[i].bytes.obj["subtotal"] = JAbsent
        /\ Resp(i).status = BAD_REQUEST
        /\ IsErrorEnvelope(Resp(i), "invalid request")

(* C5: a POST /compute with a valid Order whose rate lookup fails in       *)
(* transport or returns a text that does not parse as a number is answered *)
(* 503 with the fixed message, the same response for every such failure.   *)
LookupFailed(i) ==
    \/ reply[i].stage \in {"send_err", "text_err"}
    \/ reply[i].stage = "text" /\ ~ParseF32(reply[i].text).ok

C5_LookupFailureIs503 ==
    \A i \in Reqs :
        (Done(i) /\ IsPostCompute(i) /\ ValidOrderRead(i) /\ LookupFailed(i)) =>
            /\ Resp(i).status = SERVICE_UNAVAILABLE
            /\ IsErrorEnvelope(Resp(i), TaxRateMessage)

C5_Witness ==
    \E i, j \in Reqs :
        /\ Done(i) /\ IsPostCompute(i) /\ ValidOrderRead(i)
        /\ reply[i].stage = "text" /\ reply[i].text = <<"a", "b", "c">>
        /\ Resp(i).status = SERVICE_UNAVAILABLE
        /\ Done(j) /\ IsPostCompute(j) /\ ValidOrderRead(j)
        /\ reply[j].stage = "send_err"
        /\ Resp(j) = Resp(i)

(* C6, as stated: a failure to read the rate reply's body, like a failure  *)
(* to read the inbound body, is answered 500.                              *)
C6_BodyReadFailuresAre500 ==
    \A i \in Reqs :
        (Done(i) /\ IsPostCompute(i)
            /\ (body[i].read = "err" \/ reply[i].stage = "text_err")) =>
            Resp(i).status = INTERNAL_SERVER_ERROR

(* C6, amended: a failure to read the inbound request body is classified   *)
(* Unexpected(cause) and answered 500 with the stringified cause as the    *)
(* message; a failure to read the rate reply's body is a failed lookup,    *)
(* answered 503 with the fixed message.                                    *)
C6_InboundReadFailureIs500 ==
    \A i \in Reqs :
        (Done(i) /\ IsPostCompute(i)) =>
            /\ body[i].read = "err" =>
                  /\ Resp(i).status = INTERNAL_SERVER_ERROR
                  /\ IsErrorEnvelope(Resp(i), body[i].err)
            /\ reply[i].stage = "text_err" =>
                  /\ Resp(i).status = SERVICE_UNAVAILABLE
                  /\ IsErrorEnvelope(Resp(i), TaxRateMessage)

C6_Witness ==
    \E i \in Reqs :
        /\ Done(i) /\ IsPostCompute(i) /\ body[i].read = "err"
        /\ body[i].err \in HyperErrors
        /\ Resp(i).status = INTERNAL_SERVER_ERROR
        /\ Resp(i).body.obj["message"] = JStr(body[i].err)

(* C7: every request the handler has finished got exactly one response and *)
(* the handler returned Ok; the status is fixed by the route: 200 and an   *)
(* empty body for OPTIONS /compute, 200 and the usage text for GET /, one  *)
(* of 200, 400, 503, 500 for POST /compute with the "error" envelope on    *)
(* the failures, 404 and an empty body for everything else.                *)
C7_OneResponsePerRoute ==
    \A i \in Reqs :
        /\ ret[i] # "Err"
        /\ Len(responses[i]) <= 1
        /\ Done(i) <=> (ret[i] = "Ok" /\ Len(responses[i]) = 1)
        /\ Done(i) =>
            IF req[i].method = "OPTIONS" /\ req[i].path = "/compute"
            THEN Resp(i).status = OK /\ Resp(i).body = TextBody("")
            ELSE IF req[i].method = "GET" /\ req[i].path = "/"
            THEN Resp(i).status = OK /\ Resp(i).body = TextBody(Usage)
            ELSE IF req[i].method = "POST" /\ req[i].path = "/compute"
            THEN /\ Resp(i).status \in {OK, BAD_REQUEST, SERVICE_UNAVAILABLE,
                                        INTERNAL_SERVER_ERROR}
                 /\ Resp(i).status # OK =>
                      /\ Resp(i).body.json
                      /\ Resp(i).body.obj["status"] = JStr("error")
                      /\ Resp(i).body.obj["message"].t = "str"
            ELSE Resp(i).status = NOT_FOUND /\ Resp(i).body = TextBody("")

C7_Witness ==
    \E i, j \in Reqs :
        /\ Done(i) /\ req[i] = [method |-> "GET", path |-> "/compute"]
        /\ Resp(i).status = NOT_FOUND
        /\ Done(j) /\ IsPostCompute(j) /\ Resp(j).status = SERVICE_UNAVAILABLE
        /\ Len(responses[i]) = 1 /\ Len(responses[j]) = 1

(* C8: for every inbound request at most one outbound rate lookup is ever  *)
(* sent, only for a POST /compute whose body was read and deserialized as  *)
(* an Order, with exactly that order's shipping_zip as its body, and never *)
(* after the response to the client.                                       *)
C8_OutboundState ==
    \A i \in Reqs :
        /\ Len(outbound[i]) <= 1
        /\ Len(outbound[i]) = 1 =>
            /\ IsPostCompute(i)
            /\ ValidOrderRead(i)
            /\ outbound[i][1].body = body[i].bytes.obj["shipping_zip"].s
        /\ (reply[i].stage # "none" \/ (Done(i) /\ IsPostCompute(i) /\ ValidOrderRead(i)))
              => Len(outbound[i]) = 1

C8_OutboundStep ==
    \A i \in Reqs :
        outbound'[i] # outbound[i] =>
            /\ responses[i] = <<>> /\ responses'[i] = <<>>
            /\ outbound[i] = <<>>

C8_SingleLookupBeforeResponse == [](C8_OutboundState) /\ [][C8_OutboundStep]_vars

C8_Witness ==
    \E i, j \in Reqs :
        /\ Done(i) /\ Len(outbound[i]) = 1 /\ outbound[i][1].body = "10001"
        /\ reply[i].stage = "send_err"
        /\ Len(outbound[j]) = 1 /\ outbound[j][1].body = "78701"
        /\ responses[j] = <<>>

(* C9: the status code of the rate reply is never inspected: whatever its  *)
(* status, the reply's text is read before the request is answered; a      *)
(* reply with an error status whose text parses as R gives 200 with        *)
(* total = S * (1 + R),                                                    *)
(* and two requests that differ only in the reply's status code get the    *)
(* same response.                                                          *)
C9_ReplyStatusIgnored ==
    /\ \A i \in Reqs :
        reply[i].stage = "head" => (pc[i] = "reading_text" /\ responses[i] = <<>>)
    /\ \A i \in Reqs :
        (Done(i) /\ IsPostCompute(i) /\ ValidOrderRead(i)
            /\ reply[i].stage = "text" /\ reply[i].status >= 400
            /\ ParseF32(reply[i].text).ok) =>
            /\ Resp(i).status = OK
            /\ TotalIs(Resp(i), SubtotalOf(body[i].bytes), ParseF32(reply[i].text).val)
    /\ \A i, j \in Reqs :
        (Done(i) /\ Done(j) /\ IsPostCompute(i) /\ IsPostCompute(j)
            /\ body[i] = body[j] /\ body[i].read = "ok"
            /\ reply[i].stage = reply[j].stage /\ reply[i].text = reply[j].text
            /\ reply[i].stage \in {"text", "text_err"}) =>
            Resp(i) = Resp(j)

C9_Witness ==
    \E i, j \in Reqs :
        /\ Done(i) /\ Done(j) /\ IsPostCompute(i) /\ IsPostCompute(j)
        /\ body[i] = body[j] /\ ValidOrderRead(i)
        /\ reply[i] = [stage |-> "text", status |-> 500, text |-> <<"2">>]
        /\ reply[j] = [stage |-> "text", status |-> 200, text |-> <<"2">>]
        /\ Resp(i).status = OK /\ Resp(i) = Resp(j)
        /\ Resp(i).body.obj["total"].n = 300 * Resp(i).body.obj["total"].d

(* C10: under any interleaving the response to a POST /compute is the one  *)
(* compute gives when run alone on that request's own body and own lookup  *)
(* reply; a step of one request changes no other request's state; the rate *)
(* service URL is fixed by the environment and is the same for every       *)
(* outbound call.                                                          *)
ComputeAlone(b, r) ==
    IF b.read = "err" THEN From_ComputeError(Unexpected(b.err))
    ELSE IF ~Deserialize(b.bytes).ok THEN From_ComputeError(InvalidRequest)
    ELSE IF r.stage \in {"send_err", "text_err"} THEN From_ComputeError(TaxRateNotAvailable)
    ELSE IF ~ParseF32(r.text).ok THEN From_ComputeError(TaxRateNotAvailable)
    ELSE LET o == Deserialize(b.bytes).val
             rate == ParseF32(r.text).val
         IN  response_build(OK, JsonBody(SerializeOrder(
                 [o EXCEPT !.total = RatMul(o.subtotal, RatAdd(One, rate))]).val))

C10_IsolatedState ==
    /\ \A i \in Reqs :
        (Done(i) /\ IsPostCompute(i)) => responses[i] = <<ComputeAlone(body[i], reply[i])>>
    /\ \A i \in Reqs : \A k \in 1..Len(outbound[i]) :
        /\ SALES_TAX_RATE_SERVICE.init
        /\ outbound[i][k].url = SALES_TAX_RATE_SERVICE.val
        /\ outbound[i][k].url = (IF env.set THEN env.val ELSE DefaultRateService)

Slot(i) == <<pc[i], req[i], body[i], order[i], outbound[i], reply[i], responses[i], ret[i]>>

C10_IsolatedStep ==
    /\ env' = env
    /\ SALES_TAX_RATE_SERVICE.init => SALES_TAX_RATE_SERVICE' = SALES_TAX_RATE_SERVICE
    /\ \A i, j \in Reqs :
        (i # j /\ Slot(i)' # Slot(i)) => Slot(j)' = Slot(j)

C10_RequestsAreIsolated == [](C10_IsolatedState) /\ [][C10_IsolatedStep]_vars

C10_Witness ==
    \E i, j \in Reqs :
        /\ i < j
        /\ Done(i) /\ Done(j) /\ IsPostCompute(i) /\ IsPostCompute(j)
        /\ ValidOrderRead(i) /\ ValidOrderRead(j)
        /\ body[i].bytes.obj["subtotal"] # body[j].bytes.obj["subtotal"]
        /\ RateParsed(i) /\ RateParsed(j) /\ reply[i].text # reply[j].text
        /\ outbound[i][1].url = outbound[j][1].url
        /\ Resp(i).status = OK /\ Resp(j).status = OK
        /\ Resp(i).body.obj["total"] # Resp(j).body.obj["total"]

====
